---- MODULE Spec2Model ----
(***************************************************************************)
(* The upload-and-analyze pipeline of app/routes/upload.tsx: the component *)
(* state (isProcessing, statusText, file), the rendered form, and every    *)
(* run of handleAnalyze as a process that suspends at each await until the *)
(* collaborator it called settles.                                         *)
(***************************************************************************)
EXTENDS Integers, Sequences, FiniteSets, TLC

(* ------------------------------ bounds --------------------------------- *)

\* Number of handleAnalyze runs one behaviour may start.
MaxRuns == 2

(* --------------------------- input domains ----------------------------- *)

\* Declared media types of the selected file, as sequences of characters.
FileTypes ==
    { <<"a", "/", "p", "d", "f">>,
      <<"a", "/", "P", "D", "F">>,
      <<"p", "n", "g">>,
      <<"p", "d">> }

Files == [type : FileTypes]

\* The three form fields read by handleSubmit.
Requests ==
    { [companyName |-> "", jobTitle |-> "", jobDescription |-> ""],
      [companyName |-> "Acme", jobTitle |-> "Engineer", jobDescription |-> "Build"] }

\* Identifiers generateUUID can return: one fresh identifier for each run.
UUIDs == 1..MaxRuns

\* Paths the Blob Store hands back; images the Rasterizer produces.
Paths == {"/a", "/b"}
ImageFiles == [size : {0, 7}]
ConversionErrors == {"", "Failed to load PDF"}

\* What a collaborator can throw: an Error with a message, or any other value.
Thrown ==
    { [isError |-> TRUE, message |-> "network"],
      [isError |-> FALSE, message |-> ""] }

(* --------------------------- JSON (line 138) --------------------------- *)

\* A text is a sequence of tokens; QQ is the literal "" (the empty string).
QQ == "\"\""
Tokens == {"1", QQ, "[", "]", ",", " ", "x"}

\* Texts the Feedback Service answers with: well-formed ones, with and without
\* white space, and malformed ones.
Texts ==
    { <<"1">>,
      <<" ", "1", " ">>,
      <<QQ>>,
      <<"[", "]">>,
      <<"[", "1", ",", " ", QQ, "]">>,
      <<"[", "[", "1", "]", "]">>,
      <<>>,
      <<"x">>,
      <<"[", "1", ",", "]">>,
      <<"1", "1">> }

\* JavaScript values a record's feedback can hold.
Num == [t |-> "num", n |-> 1]
Str == [t |-> "str", s |-> ""]
Arr(items) == [t |-> "arr", items |-> items]

ParseFail == [ok |-> FALSE, next |-> 0, val |-> Str]
ParseOk(v, n) == [ok |-> TRUE, next |-> n, val |-> v]

RECURSIVE SkipWs(_, _)
SkipWs(s, i) ==
    IF i <= Len(s) /\ s[i] = " " THEN SkipWs(s, i + 1) ELSE i

RECURSIVE ParseValue(_, _)
RECURSIVE ParseItems(_, _, _)
ParseItems(s, i, acc) ==
    LET r == ParseValue(s, i)
        m == SkipWs(s, r.next)
    IN  IF ~r.ok \/ m > Len(s) THEN ParseFail
        ELSE IF s[m] = "]" THEN ParseOk(Arr(Append(acc, r.val)), m + 1)
        ELSE IF s[m] = "," THEN ParseItems(s, m + 1, Append(acc, r.val))
        ELSE ParseFail

ParseValue(s, i) ==
    LET j == SkipWs(s, i)
    IN  IF j > Len(s) THEN ParseFail
        ELSE IF s[j] = "1" THEN ParseOk(Num, j + 1)
        ELSE IF s[j] = QQ THEN ParseOk(Str, j + 1)
        ELSE IF s[j] = "["
             THEN LET k == SkipWs(s, j + 1)
                  IN  IF k <= Len(s) /\ s[k] = "]"
                      THEN ParseOk(Arr(<<>>), k + 1)
                      ELSE ParseItems(s, j + 1, <<>>)
        ELSE ParseFail

\* JSON.parse: the value of the text, or a SyntaxError.
JsonParse(s) ==
    LET r == ParseValue(s, 1)
    IN  IF r.ok /\ SkipWs(s, r.next) > Len(s) THEN r ELSE ParseFail

RECURSIVE StringifyValue(_)
RECURSIVE StringifyItems(_)
StringifyItems(items) ==
    IF items = <<>> THEN <<>>
    ELSE IF Len(items) = 1 THEN StringifyValue(items[1])
    ELSE StringifyValue(items[1]) \o <<",">> \o StringifyItems(Tail(items))

StringifyValue(v) ==
    IF v.t = "num" THEN <<"1">>
    ELSE IF v.t = "str" THEN <<QQ>>
    ELSE <<"[">> \o StringifyItems(v.items) \o <<"]">>

\* JSON.stringify(data): the members in insertion order; the string members
\* are kept as they are, the feedback member is serialised.
JsonStringify(d) ==
    << <<"id", d.id>>,
       <<"resumePath", d.resumePath>>,
       <<"imagePath", d.imagePath>>,
       <<"companyName", d.companyName>>,
       <<"jobTitle", d.jobTitle>>,
       <<"jobDescription", d.jobDescription>>,
       <<"feedback", StringifyValue(d.feedback)>> >>

SyntaxErrorThrown == [isError |-> TRUE, message |-> "Unexpected token"]
TypeErrorThrown == [isError |-> TRUE, message |-> "Cannot read properties of undefined"]

(* ------------------------ collaborator results ------------------------- *)

Pending == [kind |-> "pending"]

\* fs.upload: an item with its path, undefined, or a rejection (lines 57, 96).
UploadResults ==
    {[kind |-> "item", path |-> p] : p \in Paths}
        \cup {[kind |-> "none"]}
        \cup {[kind |-> "throw", error |-> e] : e \in Thrown}

\* convertPdfToImage: { file?, error? }, or a rejection (line 70).
ConvertResults ==
    {[kind |-> "result", file |-> <<i>>, error |-> e] : i \in ImageFiles, e \in ConversionErrors}
        \cup {[kind |-> "result", file |-> <<>>, error |-> e] : e \in ConversionErrors}
        \cup {[kind |-> "throw", error |-> e] : e \in Thrown}

\* kv.set: resolves, or rejects (lines 120, 139).
SetResults ==
    {[kind |-> "ok"]} \cup {[kind |-> "throw", error |-> e] : e \in Thrown}

\* message.content: a string, or a sequence of blocks of which only the first
\* is ever read (lines 133-136).
Contents ==
    {[shape |-> "string", text |-> t] : t \in Texts}
        \cup {[shape |-> "blocks", blocks |-> <<>>]}
        \cup {[shape |-> "blocks", blocks |-> <<[text |-> t]>>] : t \in Texts}
        \cup {[shape |-> "blocks", blocks |-> <<[text |-> t], [text |-> <<"x">>]>>] : t \in Texts}

\* ai.feedback: a response, nothing, or a rejection (line 124).
FeedbackResults ==
    {[kind |-> "response", content |-> c] : c \in Contents}
        \cup {[kind |-> "null"]}
        \cup {[kind |-> "throw", error |-> e] : e \in Thrown}

(* ----------------------------- status texts ---------------------------- *)

\* A status text is the sequence of the pieces the template literal joins.
IdleText == <<" ">>
ErrorPrefix == "Error: "

\* The text of line 37 without its prefix.
SignInText_NoPrefix == <<"Please sign in to upload files">>

SignInText == <<ErrorPrefix, "Please sign in to upload files">>
NotPdfText == <<ErrorPrefix, "Please upload a PDF file">>
UploadingFileText == <<"Uploading the file...">>
NoFileResultText == <<ErrorPrefix, "Failed to upload file - no result returned">>
ConvertingText == <<"Converting to image...">>
EmptyImageText == <<ErrorPrefix, "Converted image file is empty">>
UploadingImageText == <<"Uploading the image...">>
NoImageResultText == <<ErrorPrefix, "Failed to upload image - no result returned">>
PreparingText == <<"Preparing data...">>
AnalyzingText == <<"Analyzing...">>
AnalyzeFailedText == <<ErrorPrefix, "Failed to analyze resume">>
CompleteText == <<"Analysis complete, redirecting...">>

\* error instanceof Error ? error.message : fallback
MessageOf(e, fallback) == IF e.isError THEN e.message ELSE fallback

FileUploadErrorText(e) ==
    <<ErrorPrefix, "Failed to upload file - ", MessageOf(e, "Unknown error")>>
ImageUploadErrorText(e) ==
    <<ErrorPrefix, "Failed to upload image - ", MessageOf(e, "Unknown error")>>
ConversionErrorText(err) ==
    <<ErrorPrefix, "Failed to convert PDF to image - ",
      IF err = "" THEN "Unknown error" ELSE err>>

\* Every caught exception is reported with the text of a missing response.
CaughtText_Fixed(e) == AnalyzeFailedText

\* line 145: `Error: ${error.message}`, or the fallback text.
CaughtText(e) == <<ErrorPrefix, MessageOf(e, "Unknown error occurred")>>

(* ------------------------------- helpers ------------------------------- *)

\* String.prototype.includes: some position of s starts the needle.
RECURSIVE IncludesFrom(_, _, _)
IncludesFrom(s, needle, i) ==
    IF i + Len(needle) - 1 > Len(s) THEN FALSE
    ELSE IF SubSeq(s, i, i + Len(needle) - 1) = needle THEN TRUE
    ELSE IncludesFrom(s, needle, i + 1)

Includes(s, needle) == IncludesFrom(s, needle, 1)

Pdf == <<"p", "d", "f">>

UploadRoute == <<"/upload">>

\* The route is built without the identifier of the record.
ResumeRoute_NoId(uuid) == <<"/resume/", 0>>

\* line 141: `/resume/${uuid}`
ResumeRoute(uuid) == <<"/resume/", uuid>>
ResumeKey(uuid) == <<"resume:", uuid>>
Keys == {ResumeKey(u) : u \in UUIDs}

\* prepareInstructions({ jobTitle, jobDescription }): passed through unread.
PrepareInstructions(req) == <<req.jobTitle, req.jobDescription>>

(* -------------------------------- state -------------------------------- *)

VARIABLES
    isProcessing,   \* useState(false), line 13
    statusText,     \* useState(" "), line 14
    file,           \* useState<File | null>(null), line 15: <<>> or <<f>>
    formShown,      \* whether the committed render holds the form (line 182)
    location,       \* the route the router shows
    kv,             \* the Record Store: key -> <<>> or <<value>>
    runs,           \* the handleAnalyze calls in flight, and the ended one, if
                    \* any, until the form is used again
    started,        \* number of handleAnalyze calls so far
    generated       \* number of identifiers generateUUID has returned

vars == <<isProcessing, statusText, file, formShown, location, kv, runs, started, generated>>

Active(run) == run.pc \notin {"Done", "Failed", "Rejected"}

Init ==
    /\ isProcessing = FALSE
    /\ statusText = IdleText
    /\ file = <<>>
    /\ formShown = TRUE
    /\ location = UploadRoute
    /\ kv = [k \in Keys |-> <<>>]
    /\ runs = <<>>
    /\ started = 0
    /\ generated = 0

(* --------------------------- the code's tests -------------------------- *)

\* The check of the sign-in is missing.
AuthPasses_Unchecked(auth) == TRUE

\* line 36: auth.isAuthenticated
AuthPasses(auth) == auth

\* The needle is mistyped.
TypePasses_Typo(f) == Includes(f.type, <<"p", "d">>)

\* line 42: file.type.includes('pdf')
TypePasses(f) == Includes(f.type, Pdf)

\* The test of the upload's result is missing.
UploadReturned_Unchecked(res) == TRUE

\* lines 59, 99: the upload returned something
UploadReturned(res) == res.kind = "item"

\* line 73: imageFile.file
ImageProduced(res) == res.file # <<>>

\* The test of the image's size is missing.
ImageEmpty_Unchecked(res) == FALSE

\* line 87: imageFile.file.size === 0
ImageEmpty(res) == res.file[1].size = 0

\* The test of the response is missing.
FeedbackReturned_Unchecked(res) == TRUE

\* line 128: feedback
FeedbackReturned(res) == res.kind = "response"

\* The form is rendered whatever the flag.
FormVisible_Always(processing) == TRUE

\* line 182: {!isProcessing && <form ...>}
FormVisible(processing) == ~processing

\* The flag is cleared at the end of the try block and in the catch clause
\* only, so that an early return leaves it set.
ProcessingAfterExit_NotOnReturn(how) == how = "return"

\* line 147: the finally block, on every way out of the try statement.
ProcessingAfterExit(how) == FALSE

\* The outer try statement has no catch clause: the exception leaves
\* handleAnalyze, whose promise rejects.
CatchAll_Rethrows(e) == [pc |-> "Rejected", text |-> <<>>]

\* lines 143-145: the catch clause of the outer try statement.
CatchAll(e) == [pc |-> "Failed", text |-> <<CaughtText(e)>>]

(* ------------------------- steps of handleAnalyze ---------------------- *)

\* The state of one call of handleAnalyze: its arguments, its locals, the
\* await it is suspended at, the calls it has made with their results, the
\* last status text it has set and the routes it has navigated to.
NewRun(auth, f, req) ==
    [ pc |-> "start", auth |-> auth, file |-> f, req |-> req, calls |-> <<>>,
      uploadedFile |-> Pending, imageFile |-> Pending, data |-> <<>>,
      status |-> <<>>, navigated |-> <<>> ]

UploadCall(f) == [op |-> "upload", file |-> f, res |-> Pending]
ConvertCall(f) == [op |-> "convert", file |-> f, res |-> Pending]
SetCall(data) ==
    [op |-> "set", key |-> ResumeKey(data.id), value |-> JsonStringify(data), res |-> Pending]
FeedbackCall(path, req) ==
    [op |-> "feedback", path |-> path, instructions |-> PrepareInstructions(req),
     res |-> Pending]

LastCall(run) == run.calls[Len(run.calls)]
Settled(run, res) == [run EXCEPT !.calls[Len(run.calls)].res = res]

\* The effect of one stretch of handleAnalyze, from one await to the next or
\* to the end, on everything but the form.
Commit(r, run, text, processing, store, route, gen) ==
    /\ runs' = [runs EXCEPT ![r] = run]
    /\ statusText' = text
    /\ isProcessing' = processing
    /\ kv' = store
    /\ location' = route
    /\ generated' = gen
    /\ UNCHANGED <<file, formShown, started>>

\* setStatusText(text); the call; suspended at its await.
Await(r, run, pc, text, call, store, gen) ==
    Commit(r, [run EXCEPT !.pc = pc, !.status = <<text>>, !.calls = Append(@, call)],
           text, isProcessing, store, location, gen)

\* setStatusText(text); return; then the finally block.
Return(r, run, text) ==
    Commit(r, [run EXCEPT !.pc = "Failed", !.status = <<text>>],
           text, ProcessingAfterExit("return"), kv, location, generated)

\* A throw inside the outer try statement: the catch clause, then the finally
\* block.
Throw(r, run, e, gen) ==
    LET c == CatchAll(e)
    IN  Commit(r, [run EXCEPT !.pc = c.pc, !.status = IF c.text = <<>> THEN @ ELSE c.text],
               IF c.text = <<>> THEN statusText ELSE c.text[1],
               ProcessingAfterExit("throw"), kv, location, gen)

\* The catch block of the resume upload sets the text but does not return.
UploadResumeSettles_CatchFallsThrough(r, res) ==
    /\ r \in DOMAIN runs
    /\ runs[r].pc = "upload_resume"
    /\ res \in UploadResults
    /\ LET run == Settled(runs[r], res)
       IN  IF res.kind # "throw" /\ ~UploadReturned(res)
           THEN Return(r, run, NoFileResultText)
           ELSE Await(r, [run EXCEPT !.uploadedFile = res], "convert",
                      ConvertingText, ConvertCall(run.file), kv, generated)

\* lines 57-70: fs.upload([file]) settles.
UploadResumeSettles(r, res) ==
    /\ r \in DOMAIN runs
    /\ runs[r].pc = "upload_resume"
    /\ res \in UploadResults
    /\ LET run == Settled(runs[r], res)
       IN  IF res.kind = "throw"
           THEN Return(r, run, FileUploadErrorText(res.error))
           ELSE IF ~UploadReturned(res)
           THEN Return(r, run, NoFileResultText)
           ELSE Await(r, [run EXCEPT !.uploadedFile = res], "convert",
                      ConvertingText, ConvertCall(run.file), kv, generated)

\* lines 70-96: convertPdfToImage(file) settles.
ConvertSettles(r, res) ==
    /\ r \in DOMAIN runs
    /\ runs[r].pc = "convert"
    /\ res \in ConvertResults
    /\ LET run == Settled(runs[r], res)
       IN  IF res.kind = "throw"
           THEN Throw(r, run, res.error, generated)
           ELSE IF ~ImageProduced(res)
           THEN Return(r, run, ConversionErrorText(res.error))
           ELSE IF ImageEmpty(res)
           THEN Return(r, run, EmptyImageText)
           ELSE Await(r, [run EXCEPT !.imageFile = res], "upload_image",
                      UploadingImageText, UploadCall(res.file[1]), kv, generated)

\* The image upload may return nothing: the record is written without its path.
UploadImageSettles_OptionalPath(r, res) ==
    /\ r \in DOMAIN runs
    /\ runs[r].pc = "upload_image"
    /\ res \in UploadResults
    /\ LET run == Settled(runs[r], res)
           uuid == generated + 1
       IN  IF res.kind = "throw"
           THEN Return(r, run, ImageUploadErrorText(res.error))
           ELSE IF run.uploadedFile.kind # "item"
           THEN Throw(r, [run EXCEPT !.status = <<PreparingText>>], TypeErrorThrown, uuid)
           ELSE LET data == [ id |-> uuid,
                              resumePath |-> run.uploadedFile.path,
                              imagePath |-> IF res.kind = "item" THEN res.path ELSE "",
                              companyName |-> run.req.companyName,
                              jobTitle |-> run.req.jobTitle,
                              jobDescription |-> run.req.jobDescription,
                              feedback |-> Str ]
                IN  Await(r, [run EXCEPT !.data = <<data>>], "set_draft",
                          PreparingText, SetCall(data), kv, uuid)

\* lines 96-120: fs.upload([imageFile.file]) settles; the record is built and
\* written a first time.  Reading the path of an upload that returned nothing
\* throws a TypeError.
UploadImageSettles(r, res) ==
    /\ r \in DOMAIN runs
    /\ runs[r].pc = "upload_image"
    /\ res \in UploadResults
    /\ LET run == Settled(runs[r], res)
           uuid == generated + 1
       IN  IF res.kind = "throw"
           THEN Return(r, run, ImageUploadErrorText(res.error))
           ELSE IF ~UploadReturned(res)
           THEN Return(r, run, NoImageResultText)
           ELSE IF run.uploadedFile.kind # "item" \/ res.kind # "item"
           THEN Throw(r, [run EXCEPT !.status = <<PreparingText>>], TypeErrorThrown, uuid)
           ELSE LET data == [ id |-> uuid,
                              resumePath |-> run.uploadedFile.path,
                              imagePath |-> res.path,
                              companyName |-> run.req.companyName,
                              jobTitle |-> run.req.jobTitle,
                              jobDescription |-> run.req.jobDescription,
                              feedback |-> Str ]
                IN  Await(r, [run EXCEPT !.data = <<data>>], "set_draft",
                          PreparingText, SetCall(data), kv, uuid)

\* The first kv.set is not awaited: its rejection goes unnoticed.
DraftSetSettles_NotAwaited(r, res) ==
    /\ r \in DOMAIN runs
    /\ runs[r].pc = "set_draft"
    /\ res \in SetResults
    /\ LET run == Settled(runs[r], res)
           call == LastCall(run)
       IN  Await(r, run, "feedback", AnalyzingText,
                 FeedbackCall(run.uploadedFile.path, run.req),
                 IF res.kind = "throw" THEN kv ELSE [kv EXCEPT ![call.key] = <<call.value>>],
                 generated)

\* lines 120-127: the first kv.set settles.
DraftSetSettles(r, res) ==
    /\ r \in DOMAIN runs
    /\ runs[r].pc = "set_draft"
    /\ res \in SetResults
    /\ LET run == Settled(runs[r], res)
           call == LastCall(run)
       IN  IF res.kind = "throw"
           THEN Throw(r, run, res.error, generated)
           ELSE Await(r, run, "feedback", AnalyzingText,
                      FeedbackCall(run.uploadedFile.path, run.req),
                      [kv EXCEPT ![call.key] = <<call.value>>], generated)

\* Only a string content is read; a sequence of blocks yields no text.
FeedbackText_StringOnly(content) ==
    IF content.shape = "string" THEN <<content.text>> ELSE <<>>

\* Reads the last block instead of the first.
FeedbackText_LastBlock(content) ==
    IF content.shape = "string" THEN <<content.text>>
    ELSE IF content.blocks = <<>> THEN <<>>
    ELSE <<content.blocks[Len(content.blocks)].text>>

\* lines 133-136: the text of the response; <<>> when content[0] is undefined.
FeedbackText(content) ==
    IF content.shape = "string" THEN <<content.text>>
    ELSE IF content.blocks = <<>> THEN <<>>
    ELSE <<content.blocks[1].text>>

\* lines 124-139: ai.feedback settles; the feedback is parsed into the record,
\* which is written a second time.  Reading the message of no response, like
\* reading the text of no block, throws a TypeError.
FeedbackSettles(r, res) ==
    /\ r \in DOMAIN runs
    /\ runs[r].pc = "feedback"
    /\ res \in FeedbackResults
    /\ LET run == Settled(runs[r], res)
       IN  IF res.kind = "throw"
           THEN Throw(r, run, res.error, generated)
           ELSE IF ~FeedbackReturned(res)
           THEN Return(r, run, AnalyzeFailedText)
           ELSE LET text == IF res.kind = "response" THEN FeedbackText(res.content)
                            ELSE <<>>
                IN  IF text = <<>>
                    THEN Throw(r, run, TypeErrorThrown, generated)
                    ELSE LET parsed == JsonParse(text[1])
                             data == [run.data[1] EXCEPT !.feedback = parsed.val]
                         IN  IF ~parsed.ok
                             THEN Throw(r, run, SyntaxErrorThrown, generated)
                             ELSE Await(r, [run EXCEPT !.data = <<data>>], "set_final",
                                        statusText, SetCall(data), kv, generated)

\* The second kv.set is not awaited: navigate is called whatever its outcome.
FinalSetSettles_NotAwaited(r, res) ==
    /\ r \in DOMAIN runs
    /\ runs[r].pc = "set_final"
    /\ res \in SetResults
    /\ LET run == Settled(runs[r], res)
           call == LastCall(run)
           route == ResumeRoute(run.data[1].id)
       IN  IF res.kind = "throw"
           THEN Commit(r, [run EXCEPT !.pc = "Failed",
                                      !.status = <<CaughtText(res.error)>>,
                                      !.navigated = Append(@, route)],
                       CaughtText(res.error), ProcessingAfterExit("throw"),
                       kv, route, generated)
           ELSE Commit(r, [run EXCEPT !.pc = "Done", !.status = <<CompleteText>>,
                                      !.navigated = Append(@, route)],
                       CompleteText, ProcessingAfterExit("end"),
                       [kv EXCEPT ![call.key] = <<call.value>>], route, generated)

\* lines 139-147: the second kv.set settles; the run ends with the redirect.
FinalSetSettles(r, res) ==
    /\ r \in DOMAIN runs
    /\ runs[r].pc = "set_final"
    /\ res \in SetResults
    /\ LET run == Settled(runs[r], res)
           call == LastCall(run)
           route == ResumeRoute(run.data[1].id)
       IN  IF res.kind = "throw"
           THEN Throw(r, run, res.error, generated)
           ELSE Commit(r, [run EXCEPT !.pc = "Done", !.status = <<CompleteText>>,
                                      !.navigated = Append(@, route)],
                       CompleteText, ProcessingAfterExit("end"),
                       [kv EXCEPT ![call.key] = <<call.value>>], route, generated)

(* ------------------------------ the component -------------------------- *)

\* lines 17-19: the FileUploader inside the form reports the chosen file.
\* The record of an ended run is kept until the form is used again.
HandleFileSelect(f) ==
    /\ formShown
    /\ f \in {<<>>} \cup {<<x>> : x \in Files}
    /\ file' = f
    /\ runs' = SelectSeq(runs, Active)
    /\ UNCHANGED <<isProcessing, statusText, formShown, location, kv, started, generated>>

\* handleAnalyze starts without setting the processing flag.
HandleSubmit_FlagNotSet(req, auth) ==
    /\ formShown
    /\ started < MaxRuns
    /\ req \in Requests
    /\ auth \in BOOLEAN
    /\ IF file = <<>>
       THEN UNCHANGED vars
       ELSE LET f == file[1]
                run == NewRun(auth, f, req)
                ended ==
                    IF ~AuthPasses(auth)
                    THEN <<[run EXCEPT !.pc = "Failed", !.status = <<SignInText>>]>>
                    ELSE IF ~TypePasses(f)
                    THEN <<[run EXCEPT !.pc = "Failed", !.status = <<NotPdfText>>]>>
                    ELSE <<>>
                next ==
                    IF ended # <<>> THEN ended[1]
                    ELSE [run EXCEPT !.pc = "upload_resume",
                                     !.status = <<UploadingFileText>>,
                                     !.calls = <<UploadCall(f)>>]
            IN  /\ runs' = Append(SelectSeq(runs, Active), next)
                /\ statusText' = next.status[1]
                /\ isProcessing' = IF ended # <<>> THEN ProcessingAfterExit("return")
                                   ELSE isProcessing
                /\ formShown' = FormVisible(isProcessing')
                /\ started' = started + 1
                /\ UNCHANGED <<file, location, kv, generated>>

\* lines 151-165 and 32-57: the form is submitted; handleAnalyze runs up to
\* its first await, and the updates of the event are rendered before the next
\* event is handled.
HandleSubmit(req, auth) ==
    /\ formShown
    /\ started < MaxRuns
    /\ req \in Requests
    /\ auth \in BOOLEAN
    /\ IF file = <<>>
       THEN UNCHANGED vars
       ELSE LET f == file[1]
                run == NewRun(auth, f, req)
                ended ==
                    IF ~AuthPasses(auth)
                    THEN <<[run EXCEPT !.pc = "Failed", !.status = <<SignInText>>]>>
                    ELSE IF ~TypePasses(f)
                    THEN <<[run EXCEPT !.pc = "Failed", !.status = <<NotPdfText>>]>>
                    ELSE <<>>
                next ==
                    IF ended # <<>> THEN ended[1]
                    ELSE [run EXCEPT !.pc = "upload_resume",
                                     !.status = <<UploadingFileText>>,
                                     !.calls = <<UploadCall(f)>>]
            IN  /\ runs' = Append(SelectSeq(runs, Active), next)
                /\ statusText' = next.status[1]
                /\ isProcessing' = IF ended # <<>> THEN ProcessingAfterExit("return") ELSE TRUE
                /\ formShown' = FormVisible(isProcessing')
                /\ started' = started + 1
                /\ UNCHANGED <<file, location, kv, generated>>

\* lines 174-225: a render after an update made outside an event handler.
Render ==
    /\ formShown # (location = UploadRoute /\ FormVisible(isProcessing))
    /\ formShown' = (location = UploadRoute /\ FormVisible(isProcessing))
    /\ UNCHANGED <<isProcessing, statusText, file, location, kv, runs, started, generated>>

Settles(r) ==
    \/ \E res \in UploadResults : UploadResumeSettles(r, res)
    \/ \E res \in ConvertResults : ConvertSettles(r, res)
    \/ \E res \in UploadResults : UploadImageSettles(r, res)
    \/ \E res \in SetResults : DraftSetSettles(r, res)
    \/ \E res \in FeedbackResults : FeedbackSettles(r, res)
    \/ \E res \in SetResults : FinalSetSettles(r, res)

Next ==
    \/ \E f \in {<<>>} \cup {<<x>> : x \in Files} : HandleFileSelect(f)
    \/ \E req \in Requests, auth \in BOOLEAN : HandleSubmit(req, auth)
    \/ Render
    \/ \E r \in 1..MaxRuns : Settles(r)

Spec == Init /\ [][Next]_vars

\* Every collaborator call resolves or rejects: while some call is pending,
\* one of the pending calls settles.
FairSpec == Spec /\ WF_vars(\E r \in 1..MaxRuns : Settles(r))

(* ------------------------- reading a run's calls ----------------------- *)

Ended(run) == ~Active(run)
RunIds == DOMAIN runs
CallsOf(run, op) == SelectSeq(run.calls, LAMBDA c : c.op = op)
Ops(run) == [i \in 1..Len(run.calls) |-> run.calls[i].op]
IsPrefix(s, t) == Len(s) <= Len(t) /\ s = SubSeq(t, 1, Len(s))
FixedOrder == <<"upload", "convert", "upload", "set", "feedback", "set">>

BothUploadsSucceeded(run) ==
    LET ups == CallsOf(run, "upload")
    IN  Len(ups) >= 2 /\ ups[1].res.kind = "item" /\ ups[2].res.kind = "item"

\* The value of each text of Texts that is well-formed JSON, written out.
ExpectedJson(t) ==
    CASE t = <<"1">> -> <<Num>>
      [] t = <<" ", "1", " ">> -> <<Num>>
      [] t = <<QQ>> -> <<Str>>
      [] t = <<"[", "]">> -> <<Arr(<<>>)>>
      [] t = <<"[", "1", ",", " ", QQ, "]">> -> <<Arr(<<Num, Str>>)>>
      [] t = <<"[", "[", "1", "]", "]">> -> <<Arr(<<Arr(<<Num>>)>>)>>
      [] OTHER -> <<>>

\* The text of a response: the string, or the text of the first block.
ResponseText(res) ==
    IF res.kind # "response" THEN <<>>
    ELSE IF res.content.shape = "string" THEN <<res.content.text>>
    ELSE IF res.content.blocks = <<>> THEN <<>>
    ELSE <<res.content.blocks[1].text>>

\* The parsed feedback of a response; <<>> when there is none.
ResponseJson(res) ==
    IF ResponseText(res) = <<>> THEN <<>> ELSE ExpectedJson(ResponseText(res)[1])

\* The serialised record a run is expected to write, with feedback fb.
ExpectedValue(run, fb) ==
    LET ups == CallsOf(run, "upload")
    IN  << <<"id", run.data[1].id>>,
           <<"resumePath", ups[1].res.path>>,
           <<"imagePath", ups[2].res.path>>,
           <<"companyName", run.req.companyName>>,
           <<"jobTitle", run.req.jobTitle>>,
           <<"jobDescription", run.req.jobDescription>>,
           <<"feedback", fb>> >>

(* -------------------------------- C1 ----------------------------------- *)

\* C1 as stated: in every run in which both uploads succeed, the Record Store
\* receives exactly two set calls for the same key resume:{id}, the first with
\* feedback "" and the second with the parsed JSON of the response text.
C1_ExactlyTwoSets ==
    \A r \in RunIds :
        LET run == runs[r]
            sets == CallsOf(run, "set")
        IN  (Ended(run) /\ BothUploadsSucceeded(run)) =>
                /\ Len(sets) = 2
                /\ sets[1].key = sets[2].key
                /\ sets[1].value = ExpectedValue(run, <<QQ>>)
                /\ LET fbs == CallsOf(run, "feedback")
                   IN  sets[2].value =
                           ExpectedValue(run, StringifyValue(ResponseJson(fbs[1].res)[1]))

\* C1 amended: in every run in which both uploads succeed the Record Store
\* receives one or two set calls, all for the key resume:{id}; the first
\* carries the record with feedback ""; the second is made exactly when the
\* first resolved and the Feedback Service returned a response whose text is
\* well-formed JSON, and it carries the same record with feedback equal to
\* the parsed JSON of that text.
C1_DraftThenFinal ==
    \A r \in RunIds :
        LET run == runs[r]
            sets == CallsOf(run, "set")
            fbs == CallsOf(run, "feedback")
        IN  /\ Len(sets) <= 2
            /\ BothUploadsSucceeded(run) <=> Len(sets) >= 1
            /\ Len(sets) >= 1 =>
                /\ sets[1].key = <<"resume:", run.data[1].id>>
                /\ sets[1].value = ExpectedValue(run, <<QQ>>)
            /\ Len(sets) = 2 <=>
                /\ Len(sets) >= 1 /\ sets[1].res.kind = "ok"
                /\ Len(fbs) = 1 /\ ResponseJson(fbs[1].res) # <<>>
            /\ Len(sets) = 2 =>
                /\ sets[2].key = sets[1].key
                /\ sets[2].value =
                       ExpectedValue(run, StringifyValue(ResponseJson(fbs[1].res)[1]))

\* A run that wrote the record twice, the second time with an array parsed
\* from the first block of the response.
C1_Witness ==
    \E r \in RunIds :
        /\ runs[r].pc = "Done"
        /\ Len(CallsOf(runs[r], "set")) = 2
        /\ CallsOf(runs[r], "feedback")[1].res.content.shape = "blocks"
        /\ runs[r].data[1].feedback = Arr(<<Num, Str>>)

(* -------------------------------- C2 ----------------------------------- *)

NoneActive == \A r \in RunIds : Ended(runs[r])

\* C2 as stated: when a run has ended, on whatever path, the processing flag
\* is false and the status text is back to its idle value.
C2_SessionReset ==
    (runs # <<>> /\ NoneActive) => (~isProcessing /\ statusText = IdleText)

\* C2 amended: when a run has ended, on whatever path, the processing flag is
\* false; the status text is not reset: it stays the last text the run set.
C2_FlagClearedTextKept ==
    /\ NoneActive => ~isProcessing
    /\ (runs # <<>> /\ NoneActive) =>
           /\ statusText = runs[Len(runs)].status[1]
           /\ statusText # IdleText

\* A run ended by an exception of the Feedback Service, the flag cleared.
C2_Witness ==
    \E r \in RunIds :
        /\ runs[r].pc = "Failed"
        /\ Len(runs[r].calls) = 5
        /\ LastCall(runs[r]).res.kind = "throw"
        /\ ~isProcessing

(* -------------------------------- C3 ----------------------------------- *)

\* C3: at most one run of handleAnalyze is active at a time: no run starts
\* while an earlier one has not reached its cleanup.
C3_AtMostOneActive ==
    Len(SelectSeq(runs, Active)) <= 1

\* A second run in flight, started after the first had ended.
C3_Witness ==
    /\ started = 2
    /\ \E r \in RunIds : Active(runs[r])
    /\ isProcessing /\ ~formShown

(* -------------------------------- C4 ----------------------------------- *)

Succeeded(c) ==
    CASE c.op = "upload" -> c.res.kind = "item"
      [] c.op = "convert" ->
            c.res.kind = "result" /\ c.res.file # <<>> /\ c.res.file[1].size > 0
      [] c.op = "set" -> c.res.kind = "ok"
      [] c.op = "feedback" -> ResponseJson(c.res) # <<>>

\* C4: the calls of a run are a prefix of upload(resume), convert(pdf),
\* upload(image), set, feedback, set; each is issued only after the one before
\* succeeded, and a run whose last call succeeded has made all six.
C4_FixedOrder ==
    \A r \in RunIds :
        LET run == runs[r]
            n == Len(run.calls)
        IN  /\ IsPrefix(Ops(run), FixedOrder)
            /\ \A i \in 1..(n - 1) : Succeeded(run.calls[i])
            /\ n >= 1 => run.calls[1].file = run.file
            /\ n >= 2 => run.calls[2].file = run.file
            /\ n >= 3 => run.calls[3].file = run.calls[2].res.file[1]
            /\ Active(run) => n >= 1 /\ run.calls[n].res = Pending
            /\ (Ended(run) /\ n >= 1 /\ Succeeded(run.calls[n])) =>
                   (n = 6 /\ run.pc = "Done")

\* A run that made all six calls.
C4_Witness ==
    \E r \in RunIds : Len(runs[r].calls) = 6 /\ runs[r].pc = "Done"

(* -------------------------------- C5 ----------------------------------- *)

\* C5: a run for which the Auth Gate reports not authenticated fails with the
\* sign-in error and calls no collaborator at all.
C5_Unauthenticated ==
    \A r \in RunIds :
        ~runs[r].auth =>
            /\ runs[r].pc = "Failed"
            /\ runs[r].status = <<SignInText>>
            /\ runs[r].calls = <<>>
            /\ runs[r].navigated = <<>>

\* An unauthenticated run on a PDF file.
C5_Witness ==
    \E r \in RunIds :
        /\ ~runs[r].auth
        /\ runs[r].file.type = <<"a", "/", "p", "d", "f">>
        /\ statusText = SignInText

(* -------------------------------- C6 ----------------------------------- *)

HasPdf(t) ==
    \E i \in 1..(Len(t) - 2) : t[i] = "p" /\ t[i + 1] = "d" /\ t[i + 2] = "f"

\* C6: an authenticated run whose file's declared type does not contain
\* "pdf" fails with the file type error before any upload.
C6_InvalidFileType ==
    \A r \in RunIds :
        (runs[r].auth /\ ~HasPdf(runs[r].file.type)) =>
            /\ runs[r].pc = "Failed"
            /\ runs[r].status = <<NotPdfText>>
            /\ runs[r].calls = <<>>

\* An authenticated run on a file whose type is only the start of "pdf".
C6_Witness ==
    \E r \in RunIds :
        /\ runs[r].auth
        /\ runs[r].file.type = <<"p", "d">>
        /\ statusText = NotPdfText

(* -------------------------------- C7 ----------------------------------- *)

\* C7: when the upload of the resume throws, the run fails with the upload
\* error of the resume stage and calls nothing else: no Rasterizer call.
C7_ResumeUploadThrows ==
    \A r \in RunIds :
        LET run == runs[r]
        IN  (Len(run.calls) >= 1 /\ run.calls[1].res.kind = "throw") =>
                /\ run.pc = "Failed"
                /\ run.status =
                       << <<"Error: ", "Failed to upload file - ",
                            IF run.calls[1].res.error.isError
                            THEN run.calls[1].res.error.message
                            ELSE "Unknown error">> >>
                /\ Len(run.calls) = 1

\* A run whose resume upload threw an Error.
C7_Witness ==
    \E r \in RunIds :
        /\ Len(runs[r].calls) >= 1
        /\ runs[r].calls[1].res.kind = "throw"
        /\ runs[r].calls[1].res.error.isError

(* -------------------------------- C8 ----------------------------------- *)

\* C8: when the Rasterizer returns an image of zero length the run fails with
\* the empty image error, which differs from the error reported when no image
\* is produced; the image is not uploaded and nothing is written.
C8_EmptyArtifact ==
    \A r \in RunIds :
        LET run == runs[r]
            n == Len(run.calls)
        IN  (n >= 2 /\ run.calls[2].res.kind = "result") =>
                LET res == run.calls[2].res
                IN  /\ (res.file # <<>> /\ res.file[1].size = 0) =>
                           /\ run.pc = "Failed"
                           /\ run.status = <<EmptyImageText>>
                           /\ n = 2
                    /\ res.file = <<>> =>
                           /\ run.pc = "Failed"
                           /\ run.status # <<EmptyImageText>>
                           /\ run.status[1][2] = "Failed to convert PDF to image - "
                           /\ n = 2

\* A run whose conversion returned an empty image, together with an error.
C8_Witness ==
    \E r \in RunIds :
        /\ Len(runs[r].calls) = 2
        /\ runs[r].calls[2].res.kind = "result"
        /\ runs[r].calls[2].res.file = <<[size |-> 0]>>
        /\ runs[r].calls[2].res.error # ""

(* -------------------------------- C9 ----------------------------------- *)

\* C9: when the Feedback Service returns null the run fails with the analyze
\* error, no second set call is made, and the draft record, with feedback "",
\* is what the Record Store holds under resume:{id}.
C9_FeedbackUnavailable ==
    \A r \in RunIds :
        LET run == runs[r]
        IN  (Len(run.calls) >= 5 /\ run.calls[5].res.kind = "null") =>
                /\ run.pc = "Failed"
                /\ run.status = <<AnalyzeFailedText>>
                /\ Len(run.calls) = 5
                /\ Len(CallsOf(run, "set")) = 1
                /\ kv[<<"resume:", run.data[1].id>>] = <<ExpectedValue(run, <<QQ>>)>>

\* A second run, after a first that left its own draft, got no feedback.
C9_Witness ==
    \E r \in RunIds :
        /\ Len(runs[r].calls) = 5
        /\ runs[r].calls[5].res.kind = "null"
        /\ runs[r].data[1].id = 2
        /\ kv[<<"resume:", 1>>] # <<>>

(* -------------------------------- C10 ---------------------------------- *)

\* C10: when every collaborator call settles, every started run ends Done or
\* Failed; no exception leaves handleAnalyze, every failure leaves an error
\* status text, and the processing flag is cleared when the run has ended.
C10_AlwaysTerminates ==
    /\ (\E r \in RunIds : Active(runs[r])) ~>
           (runs # <<>> /\ \A r \in RunIds : runs[r].pc \in {"Done", "Failed"})
    /\ [](\A r \in RunIds :
              /\ runs[r].pc # "Rejected"
              /\ runs[r].pc = "Failed" =>
                     (runs[r].status # <<>> /\ runs[r].status[1][1] = "Error: "
                      /\ statusText = runs[r].status[1]))
    /\ [](NoneActive => ~isProcessing)

\* A run ended by an exception of the Rasterizer, reported as a status text.
C10_Witness ==
    \E r \in RunIds :
        /\ Len(runs[r].calls) = 2
        /\ runs[r].calls[2].res.kind = "throw"
        /\ runs[r].pc = "Failed"
        /\ statusText = <<"Error: ", "network">>
        /\ ~isProcessing

(* -------------------------------- C11 ---------------------------------- *)

\* C11: a run navigates to /resume/{id}, and only then is Done, only after the
\* second set call, which carries the feedback parsed from the response, has
\* resolved; the identifier of the route is the one of the key of both writes.
C11_SuccessAfterFinalWrite ==
    /\ \A r \in RunIds :
           LET run == runs[r]
               sets == CallsOf(run, "set")
               fbs == CallsOf(run, "feedback")
           IN  (run.navigated # <<>> \/ run.pc = "Done") =>
                   /\ run.pc = "Done"
                   /\ Len(run.calls) = 6
                   /\ Len(sets) = 2
                   /\ sets[1].res.kind = "ok" /\ sets[2].res.kind = "ok"
                   /\ sets[2].value =
                          ExpectedValue(run, StringifyValue(ResponseJson(fbs[1].res)[1]))
                   /\ kv[sets[2].key] = <<sets[2].value>>
                   /\ sets[1].key = sets[2].key
                   /\ sets[1].key[1] = "resume:"
                   /\ run.navigated = << <<"/resume/", sets[1].key[2]>> >>
                   /\ location = <<"/resume/", sets[1].key[2]>>
    /\ location # <<"/upload">> => \E r \in RunIds : runs[r].pc = "Done"

\* A second run that succeeded after a first that failed: the page shows the
\* record of the second identifier.
C11_Witness ==
    \E r \in RunIds :
        /\ runs[r].pc = "Done"
        /\ runs[r].data[1].id = 2
        /\ location = <<"/resume/", 2>>
        /\ kv[<<"resume:", 2>>] # <<>>

(* -------------------------------- C12 ---------------------------------- *)

\* The run whose Feedback Service call returned a response with a text.
Malformed(run) ==
    /\ Len(run.calls) >= 5
    /\ run.calls[5].res.kind = "response"
    /\ ResponseText(run.calls[5].res) # <<>>
    /\ ResponseJson(run.calls[5].res) = <<>>

Unavailable(run) ==
    Len(run.calls) >= 5 /\ run.calls[5].res.kind = "null"

\* C12: a response whose text is not well-formed JSON ends the run with the
\* message of the parser's exception, no response ends it with 'Failed to
\* analyze resume'; the two status texts differ, and in both cases the draft
\* write stays the only set call and the store keeps the draft.
C12_MalformedNotUnavailable ==
    \A r \in RunIds :
        LET run == runs[r]
            sets == CallsOf(run, "set")
        IN  /\ Malformed(run) =>
                /\ run.pc = "Failed"
                /\ run.status = << <<"Error: ", "Unexpected token">> >>
                /\ run.status # << <<"Error: ", "Failed to analyze resume">> >>
            /\ Unavailable(run) =>
                /\ run.pc = "Failed"
                /\ run.status = << <<"Error: ", "Failed to analyze resume">> >>
            /\ (Malformed(run) \/ Unavailable(run)) =>
                /\ Len(run.calls) = 5
                /\ Len(sets) = 1
                /\ run.navigated = <<>>
                /\ kv[sets[1].key] = <<ExpectedValue(run, <<QQ>>)>>
                /\ run = runs[Len(runs)] => statusText = run.status[1]

\* A run ended by the text [1,] in the first block of the response.
C12_Witness ==
    \E r \in RunIds :
        /\ Malformed(runs[r])
        /\ runs[r].calls[5].res.content.shape = "blocks"
        /\ runs[r].calls[5].res.content.blocks[1].text = <<"[", "1", ",", "]">>
        /\ runs[r].pc = "Failed"
        /\ statusText = <<"Error: ", "Unexpected token">>

(* -------------------------------- C13 ---------------------------------- *)

\* The phase a progress text announces: the await its setStatusText call is
\* written ahead of (lines 54, 69, 92, 109, 122).
PhaseOfText(text) ==
    CASE text = <<"Uploading the file...">> -> "upload_resume"
      [] text = <<"Converting to image...">> -> "convert"
      [] text = <<"Uploading the image...">> -> "upload_image"
      [] text = <<"Preparing data...">> -> "set_draft"
      [] text = <<"Analyzing...">> -> "feedback"
      [] OTHER -> "none"

\* The progress text shown while a run is suspended in a phase.
LabelOf(pc) ==
    CASE pc = "upload_resume" -> <<"Uploading the file...">>
      [] pc = "convert" -> <<"Converting to image...">>
      [] pc = "upload_image" -> <<"Uploading the image...">>
      [] pc = "set_draft" -> <<"Preparing data...">>
      [] pc = "feedback" -> <<"Analyzing...">>
      [] pc = "set_final" -> <<"Analyzing...">>

HasErrorPrefix(text) == Len(text) >= 1 /\ text[1] = "Error: "

\* C13 as stated: throughout a run the status text is that of the phase the
\* run is in, and the text of a failed run carries the prefix 'Error: ', which
\* no text of a running or a successful run carries.
C13_StatusReflectsPhase ==
    \A r \in RunIds :
        LET run == runs[r]
        IN  /\ Active(run) => (PhaseOfText(statusText) = run.pc /\ ~HasErrorPrefix(statusText))
            /\ run.pc = "Failed" => HasErrorPrefix(run.status[1])
            /\ run.pc = "Done" => ~HasErrorPrefix(run.status[1])

\* C13 amended: throughout a run the status text is the label of the last
\* phase that sets one; the final write sets none, so 'Analyzing...' stays
\* while the run awaits it.  The text of a failed run carries the prefix
\* 'Error: ', which no text of a running or a successful run carries.
C13_StatusOfLastLabelledPhase ==
    \A r \in RunIds :
        LET run == runs[r]
        IN  /\ Active(run) =>
                /\ statusText = LabelOf(run.pc)
                /\ run.status = <<statusText>>
                /\ ~HasErrorPrefix(statusText)
            /\ run.pc = "Failed" =>
                /\ HasErrorPrefix(run.status[1])
                /\ run = runs[Len(runs)] => statusText = run.status[1]
            /\ run.pc = "Done" =>
                /\ run.status = << <<"Analysis complete, redirecting...">> >>
                /\ statusText = run.status[1]
                /\ ~HasErrorPrefix(statusText)

\* A run awaiting the final write under the text of the analysis.
C13_Witness ==
    \E r \in RunIds :
        /\ runs[r].pc = "set_final"
        /\ Len(runs[r].calls) = 6
        /\ statusText = <<"Analyzing...">>

(* -------------------------------- C14 ---------------------------------- *)

\* The text t a response carries, as the string or as the first block.
CarriesText(res, t) ==
    /\ res.kind = "response"
    /\ \/ res.content.shape = "string" /\ res.content.text = t
       \/ /\ res.content.shape = "blocks"
          /\ res.content.blocks # <<>>
          /\ res.content.blocks[1].text = t

\* C14: what a run does after the Feedback Service responded depends on the
\* text t of the response only, whether t came as the string or as the first
\* block of a sequence: for a JSON text the record's feedback is the parse of
\* t, the second set call carries it and a successful run leaves it in the
\* store; for any other text the run ends with the parser's error after five
\* calls.
C14_ShapeIndependent ==
    \A r \in RunIds : \A t \in Texts :
        LET run == runs[r]
        IN  (Len(run.calls) >= 5 /\ run.pc # "feedback" /\ CarriesText(run.calls[5].res, t)) =>
                IF ExpectedJson(t) # <<>>
                THEN /\ run.pc \in {"set_final", "Done", "Failed"}
                     /\ run.data[1].feedback = ExpectedJson(t)[1]
                     /\ Len(run.calls) = 6
                     /\ run.calls[6].value =
                            ExpectedValue(run, StringifyValue(ExpectedJson(t)[1]))
                     /\ run.pc = "Done" <=> run.calls[6].res.kind = "ok"
                     /\ run.pc = "Failed" <=> run.calls[6].res.kind = "throw"
                     /\ run.pc = "Done" => kv[run.calls[6].key] = <<run.calls[6].value>>
                ELSE /\ run.pc = "Failed"
                     /\ Len(run.calls) = 5
                     /\ run.status = << <<"Error: ", "Unexpected token">> >>

\* A successful run whose response was two blocks, the first with the text
\* [[1]]: the store holds the nested array.
C14_Witness ==
    \E r \in RunIds :
        /\ runs[r].pc = "Done"
        /\ runs[r].calls[5].res.content.shape = "blocks"
        /\ Len(runs[r].calls[5].res.content.blocks) = 2
        /\ CarriesText(runs[r].calls[5].res, <<"[", "[", "1", "]", "]">>)
        /\ runs[r].data[1].feedback = Arr(<<Arr(<<Num>>)>>)
        /\ kv[runs[r].calls[6].key] = <<runs[r].calls[6].value>>

(* -------------------------------- C15 ---------------------------------- *)

DraftSetThrew(run) ==
    Len(run.calls) >= 4 /\ run.calls[4].op = "set" /\ run.calls[4].res.kind = "throw"

\* C15: when the set call of the draft throws, the run ends Failed with the
\* error text of the catch clause; the draft set is its last call, so the
\* Feedback Service is not invoked and no second set is made; nothing is
\* stored, the page is not left and the processing flag is false.
C15_DraftWriteThrows ==
    \A r \in RunIds :
        LET run == runs[r]
        IN  DraftSetThrew(run) =>
                /\ run.pc = "Failed"
                /\ run.status \in { << <<"Error: ", "network">> >>,
                                    << <<"Error: ", "Unknown error occurred">> >> }
                /\ Len(run.calls) = 4
                /\ CallsOf(run, "feedback") = <<>>
                /\ Len(CallsOf(run, "set")) = 1
                /\ run.navigated = <<>>
                /\ kv[run.calls[4].key] = <<>>
                /\ location = <<"/upload">>
                /\ run = runs[Len(runs)] => (~isProcessing /\ statusText = run.status[1])

\* A run ended by a draft set that threw a value that is not an Error.
C15_Witness ==
    \E r \in RunIds :
        /\ DraftSetThrew(runs[r])
        /\ ~runs[r].calls[4].res.error.isError
        /\ runs[r].pc = "Failed"
        /\ statusText = <<"Error: ", "Unknown error occurred">>
        /\ ~isProcessing

(* -------------------------------- C16 ---------------------------------- *)

\* The serialised record carries a resumePath and an imagePath, neither empty.
HasBothPaths(value) ==
    /\ value[2][1] = "resumePath" /\ value[2][2] # ""
    /\ value[3][1] = "imagePath" /\ value[3][2] # ""

NoHandle(run) ==
    \E i \in 1..Len(run.calls) :
        run.calls[i].op = "upload" /\ run.calls[i].res.kind = "none"

\* C16: every record handed to the Record Store, and so every record it
\* holds, has a non-empty resumePath and a non-empty imagePath, each the path
\* of the item its upload returned; a run one of whose uploads returned
\* nothing ends with the 'no result returned' text of that upload, generates
\* no identifier and makes no set call.
C16_PathsNonEmpty ==
    /\ \A r \in RunIds :
           LET run == runs[r]
               sets == CallsOf(run, "set")
               ups == CallsOf(run, "upload")
           IN  /\ \A i \in 1..Len(sets) :
                      /\ HasBothPaths(sets[i].value)
                      /\ sets[i].value[2][2] = ups[1].res.path
                      /\ sets[i].value[3][2] = ups[2].res.path
               /\ NoHandle(run) =>
                      /\ run.pc = "Failed"
                      /\ LastCall(run).res.kind = "none"
                      /\ run.status =
                             IF Len(run.calls) = 1
                             THEN << <<"Error: ", "Failed to upload file - no result returned">> >>
                             ELSE << <<"Error: ", "Failed to upload image - no result returned">> >>
                      /\ sets = <<>>
                      /\ run.data = <<>>
    /\ \A k \in Keys : kv[k] # <<>> => HasBothPaths(kv[k][1])

\* A run ended because the upload of the image returned nothing, after the
\* upload of the resume had returned an item.
C16_Witness ==
    \E r \in RunIds :
        /\ Len(runs[r].calls) = 3
        /\ runs[r].calls[1].res.kind = "item"
        /\ runs[r].calls[3].res.kind = "none"
        /\ runs[r].pc = "Failed"
        /\ \A k \in Keys : kv[k] = <<>>

(* -------------------------------- C17 ---------------------------------- *)

\* C17: in every reachable state the processing flag is true when some run
\* has started and not yet run its finally block; in particular it is true
\* while a run awaits a collaborator, and the form is then not shown.
C17_FlagWhileActive ==
    /\ (\E r \in RunIds : Active(runs[r])) => isProcessing
    /\ \A r \in RunIds :
           (Active(runs[r]) /\ LastCall(runs[r]).res = Pending) => (isProcessing /\ ~formShown)

\* The second run awaits the Feedback Service, the first one having failed.
C17_Witness ==
    \E r \in RunIds :
        /\ started = 2
        /\ runs[r].pc = "feedback"
        /\ LastCall(runs[r]).res = Pending
        /\ isProcessing

(* -------------------------------- C18 ---------------------------------- *)

AnyCallFailed(run) ==
    \E i \in 1..Len(run.calls) :
        run.calls[i].res # Pending /\ ~Succeeded(run.calls[i])

\* C18: a run calls navigate at most once; a run that has set a status text
\* with the prefix 'Error: ', or one of whose collaborator calls failed, has
\* not called it, and the page it was started from is still shown.
C18_NavigateOnceOnSuccess ==
    \A r \in RunIds :
        LET run == runs[r]
        IN  /\ Len(run.navigated) <= 1
            /\ (run.pc = "Failed" \/ HasErrorPrefix(run.status[1]) \/ AnyCallFailed(run)) =>
                   /\ run.navigated = <<>>
                   /\ run = runs[Len(runs)] => location = <<"/upload">>
            /\ Active(run) => run.navigated = <<>>
            /\ run.pc = "Done" => Len(run.navigated) = 1

\* A run whose final set call threw: six calls made, no navigation.
C18_Witness ==
    \E r \in RunIds :
        /\ Len(runs[r].calls) = 6
        /\ runs[r].calls[6].res.kind = "throw"
        /\ runs[r].pc = "Failed"
        /\ runs[r].navigated = <<>>
        /\ location = <<"/upload">>

====
